---- MODULE Spec2Model ----
(***************************************************************************)
(* Session manager of codebraid-mcp: the registry of sessions              *)
(* (session.Manager), the per-session client hub (client.McpClientHub)     *)
(* and the per-session bundle directory.                                   *)
(*                                                                         *)
(* Threads call GetOrCreateSession, GetSession, DeleteSession and CloseAll *)
(* concurrently.  Every external call (NewMcpClient, McpClient.Close,      *)
(* os.MkdirTemp, os.Mkdir, GenerateFile, os.WriteFile, os.RemoveAll) may   *)
(* succeed or fail; the outcome is chosen nondeterministically.            *)
(*                                                                         *)
(* Spec and SpecCreate are the manager's methods.  SpecRegen adds the      *)
(* providers' catalog changes and the tools-refreshed callback             *)
(* (regenerateLibForServer) to session creation.  SpecHub is a hub used on *)
(* its own: Connect, CallTool, FindToolServer and Close, client by client. *)
(* A catalog is a version number; CatalogTools gives its tool names.       *)
(* SpecLife is one session's life with everything at once: creation,       *)
(* lookups, tool calls, catalog changes and their callbacks, teardown; it  *)
(* states the fairness of the locks.                                       *)
(*                                                                         *)
(* A hub, the session built on it and the bundle directory made for it are *)
(* identified by the same number h: the h-th clientHub the manager has     *)
(* allocated.  A connection is "open" until McpClient.Close is called on   *)
(* it and "closed" from then on; closeErr of the hub tells whether the     *)
(* last McpClientHub.Close returned an error.  A failed os.RemoveAll       *)
(* leaves the directory in place with whatever part of its content it did  *)
(* not remove: the content is then not tracked any more.  An               *)
(* os.RemoveAll that overlaps a callback's os.WriteFile can fail because   *)
(* the written file appears in lib after lib was emptied.                  *)
(***************************************************************************)
EXTENDS Integers, FiniteSets, Sequences, TLC

\* ---- bounds -------------------------------------------------------------
NumThreads == 2
NumIDs == 2
NumProviders == 2
MaxHubs == 2
\* catalog changes the providers announce in a run
MaxChanges == 2
\* tools-refreshed callbacks running at a time
NumRegens == 2

Threads == 1..NumThreads
IDs == 1..NumIDs
\* cfg.McpServers: the configured servers
Providers == 1..NumProviders
HubIds == 1..MaxHubs
Regens == 1..NumRegens
\* server names a caller may pass: the configured ones and an unknown one
ServerNames == 1..(NumProviders + 1)
\* tool names a caller may pass; the last one is in no catalog
ToolNames == 1..(NumProviders + 2)

VARIABLES
  sessions,  \* Manager.sessions: session ID -> session (hub number)
  mu,        \* Manager.mu: 0 = free, t = write-locked by thread t
  hubs,      \* the McpClientHub objects allocated so far
  sess,      \* the SessionContext objects (Libs, BundleDir)
  disk,      \* the bundle directories on disk
  nextHub,   \* number of the next hub to allocate
  pc,        \* position of each thread
  op,        \* the manager method a thread is in (or was last in)
  arg,       \* its sessionID argument
  hub,       \* local clientHub / session of the call (0 = none)
  libs,      \* local libs map of initializeSessionBundleDir
  res,       \* value returned by the thread's last call
  todo,      \* CloseAll: sessions not yet iterated
  errs,      \* CloseAll: session IDs in errs
  warned,    \* bundle directories for which the call logged a cleanup warning
  conc,      \* history: constructions for arg[t] that ran during t's call
  allTools,  \* local allTools of initializeSessionBundleDir
  smu,       \* SessionContext.mu: 0 = free, r = locked by regeneration r
  regen,     \* the running tools-refreshed callbacks
  invoked    \* the last McpClient.CallTool any connection served

vars == <<sessions, mu, hubs, sess, disk, nextHub, pc, op, arg, hub, libs,
          res, todo, errs, warned, conc, allTools, smu, regen, invoked>>

\* ---- values -------------------------------------------------------------
NoFile == <<>>

\* codegen GenerateFile(serverName, tools): the rendering of a catalog
GenerateFile(p, tools) == <<p, tools>>

\* the tool catalog a freshly connected client reports
InitialTools == 1

\* McpClient.GetTools: the tools of catalog version v of provider p.  Tool p
\* is its own and leaves the catalog with version 3; tool NumProviders + 1
\* joins every provider's catalog with version 2
CatalogTools(p, v) ==
  (IF v \in 1..2 THEN {p} ELSE {}) \cup (IF v >= 2 THEN {NumProviders + 1} ELSE {})

NoLibs == [p \in Providers |-> NoFile]
NoTools == [p \in Providers |-> 0]

NewHub == [sid |-> 0, clients |-> [p \in Providers |-> "none"],
           tools |-> [p \in Providers |-> 0], mu |-> 0, rd |-> {},
           cb |-> FALSE, closeErr |-> FALSE]

NewSession == [ClientHub |-> 0, Libs |-> NoLibs, BundleDir |-> 0]

\* mutant: every session is built on one process-wide hub
NewSessionContextSharedHub(clientHub) == [NewSession EXCEPT !.ClientHub = 1]

\* NewSessionContext(sessionID, clientHub)
NewSessionContext(clientHub) == [NewSession EXCEPT !.ClientHub = clientHub]

\* a callback that is not running
NoRegen == [pc |-> "none", h |-> 0, p |-> 0, ann |-> 0, file |-> NoFile,
            err |-> ""]

NoCall == [h |-> 0, p |-> 0, reply |-> "", seq |-> 0]

NoDir == [state |-> "none", lib |-> FALSE, files |-> NoLibs,
          types |-> FALSE, rspack |-> FALSE, rmAttempted |-> FALSE]

NoRes == [kind |-> "none", h |-> 0, why |-> "", names |-> {}]
SessionRes(h) == [kind |-> "session", h |-> h, why |-> "", names |-> {}]
NilRes == [kind |-> "nil", h |-> 0, why |-> "", names |-> {}]
OkRes == [kind |-> "ok", h |-> 0, why |-> "", names |-> {}]
ErrRes(why, names) == [kind |-> "err", h |-> 0, why |-> why, names |-> names]

Init ==
  /\ sessions = <<>>
  /\ mu = 0
  /\ hubs = [h \in HubIds |-> NewHub]
  /\ sess = [h \in HubIds |-> NewSession]
  /\ disk = [h \in HubIds |-> NoDir]
  /\ nextHub = 1
  /\ pc = [t \in Threads |-> "idle"]
  /\ op = [t \in Threads |-> "none"]
  /\ arg = [t \in Threads |-> 0]
  /\ hub = [t \in Threads |-> 0]
  /\ libs = [t \in Threads |-> NoLibs]
  /\ res = [t \in Threads |-> NoRes]
  /\ todo = [t \in Threads |-> {}]
  /\ errs = [t \in Threads |-> {}]
  /\ warned = [t \in Threads |-> {}]
  /\ conc = [t \in Threads |-> {}]
  /\ allTools = [t \in Threads |-> NoTools]
  /\ smu = [h \in HubIds |-> 0]
  /\ regen = [r \in Regens |-> NoRegen]
  /\ invoked = NoCall

\* ---- helpers ------------------------------------------------------------
Allocated == 1..(nextHub - 1)

ConstructPcs == {"connect", "mkdirtemp", "mkdirlib", "genlibs", "mcptypes",
                 "rspack", "cleanup", "publish"}

\* hub h is inside GetOrCreateSession's connect-and-build sequence
Building(h) == \E t \in Threads : hub[t] = h /\ pc[t] \in ConstructPcs

Connected(h) == {p \in Providers : hubs[h].clients[p] # "none"}

\* map with key k removed / set
MapRemove(m, k) == [x \in DOMAIN m \ {k} |-> m[x]]
MapPut(m, k, v) == [x \in DOMAIN m \cup {k} |-> IF x = k THEN v ELSE m[x]]

\* mutant: construction is not serialized by the write lock
CanLockAlways == TRUE

\* sync.RWMutex of the manager: Lock and RLock need no writer inside
CanLock == mu = 0
CanRLock == mu = 0

\* sync.RWMutex of a hub: Lock needs no writer and no reader inside, RLock no
\* writer
HubCanLock(h) == hubs[h].mu = 0 /\ hubs[h].rd = {}
HubCanRLock(h) == hubs[h].mu = 0

\* McpClientHub.Close: Close is called on every client in ch.clients, the
\* clients in failing return an error; the hub returns an error iff some did
HubClose(hs, h, failing) ==
  [hs EXCEPT ![h].clients =
               [p \in Providers |->
                  IF hs[h].clients[p] = "none" THEN "none" ELSE "closed"],
             ![h].closeErr = (failing # {})]

\* os.RemoveAll(bundleDir): removes the tree, or fails and leaves the
\* directory
RemoveAll(d, h, ok) ==
  [d EXCEPT ![h] = [NoDir EXCEPT !.state = IF ok THEN "removed" ELSE "present",
                                 !.rmAttempted = TRUE]]

\* a callback is at its os.WriteFile into the lib directory of d
WriteInFlight(d) ==
  /\ disk[d].state = "present" /\ disk[d].lib
  /\ \E r \in Regens :
       regen[r].pc = "write" /\ sess[regen[r].h].BundleDir = d

\* os.RemoveAll(bundleDir) while a callback is at its os.WriteFile: the file
\* can be created after RemoveAll emptied lib and before it removes lib; lib
\* is then not empty, RemoveAll fails and leaves it
RemoveAllRaced(d, h) ==
  [d EXCEPT ![h] = [NoDir EXCEPT !.state = "present", !.lib = TRUE,
                                 !.rmAttempted = TRUE]]

\* the call of thread t returns r
Return(t, r) ==
  /\ pc' = [pc EXCEPT ![t] = "idle"]
  /\ res' = [res EXCEPT ![t] = r]

\* thread t enters method o with argument id
Enter(t, o, id, at) ==
  /\ pc[t] = "idle"
  /\ pc' = [pc EXCEPT ![t] = at]
  /\ op' = [op EXCEPT ![t] = o]
  /\ arg' = [arg EXCEPT ![t] = id]
  /\ res' = [res EXCEPT ![t] = NoRes]
  /\ hub' = [hub EXCEPT ![t] = 0]
  /\ libs' = [libs EXCEPT ![t] = NoLibs]
  /\ todo' = [todo EXCEPT ![t] = {}]
  /\ errs' = [errs EXCEPT ![t] = {}]
  /\ warned' = [warned EXCEPT ![t] = {}]

\* ---- GetOrCreateSession -------------------------------------------------
CallGetOrCreateSession(t, id) ==
  /\ (nextHub - 1)
       + Cardinality({u \in Threads : pc[u] \in {"goc_rlock", "goc_lock"}})
       < MaxHubs
  /\ Enter(t, "GetOrCreateSession", id, "goc_rlock")
  /\ conc' = [conc EXCEPT ![t] =
                {h \in Allocated : hubs[h].sid = id /\ Building(h)}]
  /\ UNCHANGED <<sessions, mu, hubs, sess, disk, nextHub>>
  /\ UNCHANGED <<allTools, smu, regen, invoked>>

\* m.mu.RLock(); session, exists := m.sessions[sessionID]; m.mu.RUnlock()
GOC_FastPath(t) ==
  /\ pc[t] = "goc_rlock"
  /\ CanRLock
  /\ IF arg[t] \in DOMAIN sessions
       THEN Return(t, SessionRes(sessions[arg[t]]))
       ELSE /\ pc' = [pc EXCEPT ![t] = "goc_lock"]
            /\ UNCHANGED res
  /\ UNCHANGED <<sessions, mu, hubs, sess, disk, nextHub, op, arg, hub, libs,
                 todo, errs, warned, conc>>
  /\ UNCHANGED <<allTools, smu, regen, invoked>>

\* mutant: no double-check after acquiring the write lock
RecheckNever(id) == FALSE

\* the double-check after acquiring the write lock
Recheck(id) == id \in DOMAIN sessions

\* an earlier connect-and-build sequence for the ID ended with an error
PoisonedID(id) ==
  \E h \in Allocated :
    /\ hubs[h].sid = id /\ ~hubs[h].cb
    /\ \A u \in Threads : ~(hub[u] = h /\ pc[u] \in ConstructPcs)

\* mutant: an ID whose construction failed before is refused from then on
GOC_LockPoisoned(t) ==
  /\ pc[t] = "goc_lock"
  /\ CanLock
  /\ IF Recheck(arg[t]) \/ PoisonedID(arg[t])
       THEN /\ Return(t, IF Recheck(arg[t])
                            THEN SessionRes(sessions[arg[t]])
                            ELSE ErrRes("connect", {}))
            /\ UNCHANGED <<mu, hubs, nextHub, hub, conc>>
       ELSE /\ mu' = t
            /\ hubs' = [hubs EXCEPT ![nextHub] =
                          [NewHub EXCEPT !.sid = arg[t], !.mu = t]]
            /\ nextHub' = nextHub + 1
            /\ hub' = [hub EXCEPT ![t] = nextHub]
            /\ pc' = [pc EXCEPT ![t] = "connect"]
            /\ conc' = [u \in Threads |->
                 IF /\ u # t
                    /\ pc[u] \in {"goc_rlock", "goc_lock"}
                    /\ arg[u] = arg[t]
                   THEN conc[u] \cup {nextHub} ELSE conc[u]]
            /\ UNCHANGED res
  /\ UNCHANGED <<sessions, sess, disk, op, arg, libs, todo, errs, warned>>
  /\ UNCHANGED <<allTools, smu, regen, invoked>>

\* m.mu.Lock(); double-check; NewMcpClientHub(); Connect takes ch.mu
GOC_Lock(t) ==
  /\ pc[t] = "goc_lock"
  /\ CanLock
  /\ IF Recheck(arg[t])
       THEN /\ Return(t, SessionRes(sessions[arg[t]]))
            /\ UNCHANGED <<mu, hubs, nextHub, hub, conc>>
       ELSE /\ mu' = t
            /\ hubs' = [hubs EXCEPT ![nextHub] =
                          [NewHub EXCEPT !.sid = arg[t], !.mu = t]]
            /\ nextHub' = nextHub + 1
            /\ hub' = [hub EXCEPT ![t] = nextHub]
            /\ pc' = [pc EXCEPT ![t] = "connect"]
            /\ conc' = [u \in Threads |->
                 IF /\ u # t
                    /\ pc[u] \in {"goc_rlock", "goc_lock"}
                    /\ arg[u] = arg[t]
                   THEN conc[u] \cup {nextHub} ELSE conc[u]]
            /\ UNCHANGED res
  /\ UNCHANGED <<sessions, sess, disk, op, arg, libs, todo, errs, warned>>
  /\ UNCHANGED <<allTools, smu, regen, invoked>>

\* one iteration of Connect's loop: NewMcpClient succeeds; after the last
\* one Connect returns nil and NewSessionContext builds the session
GOC_ConnectOk(t) ==
  /\ pc[t] = "connect"
  /\ \E p \in Providers \ Connected(hub[t]) :
       LET last == Connected(hub[t]) \cup {p} = Providers IN
       /\ hubs' = [hubs EXCEPT ![hub[t]].clients[p] = "open",
                               ![hub[t]].tools[p] = InitialTools,
                               ![hub[t]].mu = IF last THEN 0 ELSE t]
       /\ sess' = IF last
                    THEN [sess EXCEPT ![hub[t]] = NewSessionContext(hub[t])]
                    ELSE sess
       /\ pc' = [pc EXCEPT ![t] = IF last THEN "mkdirtemp" ELSE "connect"]
  /\ UNCHANGED <<sessions, mu, disk, nextHub, op, arg, hub, libs, res,
                 todo, errs, warned, conc>>
  /\ UNCHANGED <<allTools, smu, regen, invoked>>

\* one iteration of Connect's loop: NewMcpClient fails; Connect returns the
\* error and GetOrCreateSession returns it without closing the hub
GOC_ConnectFail(t) ==
  /\ pc[t] = "connect"
  /\ Connected(hub[t]) # Providers
  /\ hubs' = [hubs EXCEPT ![hub[t]].mu = 0]
  /\ mu' = 0
  /\ Return(t, ErrRes("connect", {}))
  /\ UNCHANGED <<sessions, sess, disk, nextHub, op, arg, hub, libs, todo,
                 errs, warned, conc>>
  /\ UNCHANGED <<allTools, smu, regen, invoked>>

\* ---- initializeSessionBundleDir -----------------------------------------
\* os.MkdirTemp
Init_MkdirTemp(t) ==
  /\ pc[t] = "mkdirtemp"
  /\ \E ok \in BOOLEAN :
       IF ok
         THEN /\ disk' = [disk EXCEPT ![hub[t]].state = "present"]
              /\ pc' = [pc EXCEPT ![t] = "mkdirlib"]
         ELSE /\ pc' = [pc EXCEPT ![t] = "cleanup"]
              /\ UNCHANGED disk
  /\ UNCHANGED <<sessions, mu, hubs, sess, nextHub, op, arg, hub, libs, res,
                 todo, errs, warned, conc>>
  /\ UNCHANGED <<allTools, smu, regen, invoked>>

\* os.Mkdir(libDir), on failure os.RemoveAll(bundleDir);
\* allTools := session.ClientHub.Tools()
Init_MkdirLib(t) ==
  /\ pc[t] = "mkdirlib"
  /\ \E ok \in BOOLEAN, rmok \in BOOLEAN :
       IF ok
         THEN /\ disk' = [disk EXCEPT ![hub[t]].lib = TRUE]
              /\ allTools' = [allTools EXCEPT ![t] = hubs[hub[t]].tools]
              /\ pc' = [pc EXCEPT ![t] = "genlibs"]
         ELSE /\ disk' = RemoveAll(disk, hub[t], rmok)
              /\ pc' = [pc EXCEPT ![t] = "cleanup"]
              /\ UNCHANGED allTools
  /\ UNCHANGED <<sessions, mu, hubs, sess, nextHub, op, arg, hub, libs, res,
                 todo, errs, warned, conc>>
  /\ UNCHANGED <<smu, regen, invoked>>

\* providers of allTools not yet generated in this call
PendingLibs(t) == {p \in Connected(hub[t]) : libs[t][p] = NoFile}

\* one iteration of the loop over allTools: GenerateFile, libs[serverName],
\* os.WriteFile; a failure of either calls os.RemoveAll(bundleDir).  allTools
\* is not read after the loop
Init_GenLib(t) ==
  /\ pc[t] = "genlibs"
  /\ \E p \in PendingLibs(t), out \in {"ok", "genfail", "writefail"},
        rmok \in BOOLEAN :
       LET file == GenerateFile(p, allTools[t][p])
           last == PendingLibs(t) = {p} IN
       CASE out = "ok" ->
              /\ libs' = [libs EXCEPT ![t][p] = file]
              /\ disk' = [disk EXCEPT ![hub[t]].files[p] = file]
              /\ pc' = [pc EXCEPT ![t] =
                   IF last THEN "mcptypes" ELSE "genlibs"]
              /\ allTools' = [allTools EXCEPT ![t] =
                   IF last THEN NoTools ELSE @]
         [] out = "genfail" ->
              /\ disk' = RemoveAll(disk, hub[t], rmok)
              /\ pc' = [pc EXCEPT ![t] = "cleanup"]
              /\ allTools' = [allTools EXCEPT ![t] = NoTools]
              /\ UNCHANGED libs
         [] out = "writefail" ->
              /\ libs' = [libs EXCEPT ![t][p] = file]
              /\ disk' = RemoveAll(disk, hub[t], rmok)
              /\ pc' = [pc EXCEPT ![t] = "cleanup"]
              /\ allTools' = [allTools EXCEPT ![t] = NoTools]
  /\ UNCHANGED <<sessions, mu, hubs, sess, nextHub, op, arg, hub, res, todo,
                 errs, warned, conc>>
  /\ UNCHANGED <<smu, regen, invoked>>

\* os.WriteFile(mcpTypesPath)
Init_McpTypes(t) ==
  /\ pc[t] = "mcptypes"
  /\ \E ok \in BOOLEAN, rmok \in BOOLEAN :
       IF ok
         THEN /\ disk' = [disk EXCEPT ![hub[t]].types = TRUE]
              /\ pc' = [pc EXCEPT ![t] = "rspack"]
         ELSE /\ disk' = RemoveAll(disk, hub[t], rmok)
              /\ pc' = [pc EXCEPT ![t] = "cleanup"]
  /\ UNCHANGED <<sessions, mu, hubs, sess, nextHub, op, arg, hub, libs, res,
                 todo, errs, warned, conc>>
  /\ UNCHANGED <<allTools, smu, regen, invoked>>

\* os.WriteFile(rspackConfigPath); session.Libs = libs; session.BundleDir
Init_Rspack(t) ==
  /\ pc[t] = "rspack"
  /\ \E ok \in BOOLEAN, rmok \in BOOLEAN :
       IF ok
         THEN /\ disk' = [disk EXCEPT ![hub[t]].rspack = TRUE]
              /\ sess' = [sess EXCEPT ![hub[t]].Libs = libs[t],
                                      ![hub[t]].BundleDir = hub[t]]
              /\ pc' = [pc EXCEPT ![t] = "publish"]
         ELSE /\ disk' = RemoveAll(disk, hub[t], rmok)
              /\ pc' = [pc EXCEPT ![t] = "cleanup"]
              /\ UNCHANGED sess
  /\ UNCHANGED <<sessions, mu, hubs, nextHub, op, arg, hub, libs, res, todo,
                 errs, warned, conc>>
  /\ UNCHANGED <<allTools, smu, regen, invoked>>

\* mutant: the session was stored in the map before its bundle directory
\* was initialized, and the failure path does not take it out again
GOC_InitFailedKeepsEntry(t) ==
  /\ pc[t] = "cleanup"
  /\ HubCanLock(hub[t])
  /\ \E failing \in SUBSET Connected(hub[t]) :
       hubs' = HubClose(hubs, hub[t], failing)
  /\ sessions' = MapPut(sessions, arg[t], hub[t])
  /\ libs' = [libs EXCEPT ![t] = NoLibs]
  /\ mu' = 0
  /\ Return(t, ErrRes("bundle", {}))
  /\ UNCHANGED <<sess, disk, nextHub, op, arg, hub, todo, errs, warned, conc>>
  /\ UNCHANGED <<allTools, smu, regen, invoked>>

\* mutant: the failure path returns without clientHub.Close()
GOC_InitFailedNoClose(t) ==
  /\ pc[t] = "cleanup"
  /\ libs' = [libs EXCEPT ![t] = NoLibs]
  /\ mu' = 0
  /\ Return(t, ErrRes("bundle", {}))
  /\ UNCHANGED <<sessions, hubs, sess, disk, nextHub, op, arg, hub, todo,
                 errs, warned, conc>>
  /\ UNCHANGED <<allTools, smu, regen, invoked>>

\* initializeSessionBundleDir returned an error: clientHub.Close(), whose
\* result is dropped, then the error is returned
GOC_InitFailed(t) ==
  /\ pc[t] = "cleanup"
  /\ HubCanLock(hub[t])
  /\ \E failing \in SUBSET Connected(hub[t]) :
       hubs' = HubClose(hubs, hub[t], failing)
  /\ libs' = [libs EXCEPT ![t] = NoLibs]
  /\ mu' = 0
  /\ Return(t, ErrRes("bundle", {}))
  /\ UNCHANGED <<sessions, sess, disk, nextHub, op, arg, hub, todo, errs,
                 warned, conc>>
  /\ UNCHANGED <<allTools, smu, regen, invoked>>

\* SetToolsRefreshedCallback; m.sessions[sessionID] = session; return
GOC_Publish(t) ==
  /\ pc[t] = "publish"
  /\ hubs' = [hubs EXCEPT ![hub[t]].cb = TRUE]
  /\ sessions' = MapPut(sessions, arg[t], hub[t])
  /\ mu' = 0
  /\ libs' = [libs EXCEPT ![t] = NoLibs]
  /\ Return(t, SessionRes(hub[t]))
  /\ UNCHANGED <<sess, disk, nextHub, op, arg, hub, todo, errs, warned, conc>>
  /\ UNCHANGED <<allTools, smu, regen, invoked>>

\* ---- GetSession ---------------------------------------------------------
CallGetSession(t, id) ==
  /\ Enter(t, "GetSession", id, "get_rlock")
  /\ conc' = [conc EXCEPT ![t] = {}]
  /\ UNCHANGED <<sessions, mu, hubs, sess, disk, nextHub>>
  /\ UNCHANGED <<allTools, smu, regen, invoked>>

GetSession(t) ==
  /\ pc[t] = "get_rlock"
  /\ CanRLock
  /\ Return(t, IF arg[t] \in DOMAIN sessions
                 THEN SessionRes(sessions[arg[t]]) ELSE NilRes)
  /\ UNCHANGED <<sessions, mu, hubs, sess, disk, nextHub, op, arg, hub, libs,
                 todo, errs, warned, conc>>
  /\ UNCHANGED <<allTools, smu, regen, invoked>>

\* ---- DeleteSession ------------------------------------------------------
CallDeleteSession(t, id) ==
  /\ Enter(t, "DeleteSession", id, "del_lock")
  /\ conc' = [conc EXCEPT ![t] = {}]
  /\ UNCHANGED <<sessions, mu, hubs, sess, disk, nextHub>>
  /\ UNCHANGED <<allTools, smu, regen, invoked>>

\* mutant: deleting an unknown session is accepted silently
Del_LockIgnoresMissing(t) ==
  /\ pc[t] = "del_lock"
  /\ CanLock
  /\ IF arg[t] \in DOMAIN sessions
       THEN /\ mu' = t
            /\ hub' = [hub EXCEPT ![t] = sessions[arg[t]]]
            /\ pc' = [pc EXCEPT ![t] = "del_close"]
            /\ UNCHANGED res
       ELSE /\ Return(t, OkRes)
            /\ UNCHANGED <<mu, hub>>
  /\ UNCHANGED <<sessions, hubs, sess, disk, nextHub, op, arg, libs, todo,
                 errs, warned, conc>>
  /\ UNCHANGED <<allTools, smu, regen, invoked>>

\* m.mu.Lock(); lookup; not found -> error
Del_Lock(t) ==
  /\ pc[t] = "del_lock"
  /\ CanLock
  /\ IF arg[t] \in DOMAIN sessions
       THEN /\ mu' = t
            /\ hub' = [hub EXCEPT ![t] = sessions[arg[t]]]
            /\ pc' = [pc EXCEPT ![t] = "del_close"]
            /\ UNCHANGED res
       ELSE /\ Return(t, ErrRes("notfound", {arg[t]}))
            /\ UNCHANGED <<mu, hub>>
  /\ UNCHANGED <<sessions, hubs, sess, disk, nextHub, op, arg, libs, todo,
                 errs, warned, conc>>
  /\ UNCHANGED <<allTools, smu, regen, invoked>>

\* session.ClientHub.Close(); an error is returned at once
Del_Close(t) ==
  /\ pc[t] = "del_close"
  /\ HubCanLock(hub[t])
  /\ \E failing \in SUBSET Connected(hub[t]) :
       /\ hubs' = HubClose(hubs, hub[t], failing)
       /\ IF failing # {}
            THEN /\ mu' = 0
                 /\ Return(t, ErrRes("close", {}))
            ELSE /\ pc' = [pc EXCEPT ![t] = "del_remove"]
                 /\ UNCHANGED <<mu, res>>
  /\ UNCHANGED <<sessions, sess, disk, nextHub, op, arg, hub, libs, todo,
                 errs, warned, conc>>
  /\ UNCHANGED <<allTools, smu, regen, invoked>>

\* os.RemoveAll(session.BundleDir), a failure is logged; delete; return nil
Del_Remove(t) ==
  /\ pc[t] = "del_remove"
  /\ IF sess[hub[t]].BundleDir # 0
       THEN \/ \E rmok \in BOOLEAN :
                 /\ disk' = RemoveAll(disk, sess[hub[t]].BundleDir, rmok)
                 /\ warned' = [warned EXCEPT ![t] =
                      IF rmok THEN {} ELSE {sess[hub[t]].BundleDir}]
            \/ /\ WriteInFlight(sess[hub[t]].BundleDir)
               /\ disk' = RemoveAllRaced(disk, sess[hub[t]].BundleDir)
               /\ warned' = [warned EXCEPT ![t] = {sess[hub[t]].BundleDir}]
       ELSE UNCHANGED <<disk, warned>>
  /\ sessions' = MapRemove(sessions, arg[t])
  /\ mu' = 0
  /\ Return(t, OkRes)
  /\ UNCHANGED <<hubs, sess, nextHub, op, arg, hub, libs, todo, errs, conc>>
  /\ UNCHANGED <<allTools, smu, regen, invoked>>

\* ---- CloseAll -----------------------------------------------------------
CallCloseAll(t) ==
  /\ Enter(t, "CloseAll", 0, "ca_lock")
  /\ conc' = [conc EXCEPT ![t] = {}]
  /\ UNCHANGED <<sessions, mu, hubs, sess, disk, nextHub>>
  /\ UNCHANGED <<allTools, smu, regen, invoked>>

CA_Lock(t) ==
  /\ pc[t] = "ca_lock"
  /\ CanLock
  /\ mu' = t
  /\ todo' = [todo EXCEPT ![t] = DOMAIN sessions]
  /\ pc' = [pc EXCEPT ![t] = "ca_loop"]
  /\ UNCHANGED <<sessions, hubs, sess, disk, nextHub, op, arg, hub, libs, res,
                 errs, warned, conc>>
  /\ UNCHANGED <<allTools, smu, regen, invoked>>

\* mutant: the loop stops at the first session whose hub fails to close,
\* as DeleteSession does
CA_SessionAborts(t) ==
  /\ pc[t] = "ca_loop"
  /\ \E id \in todo[t] :
       LET h == sessions[id] IN
       /\ HubCanLock(h)
       /\ \E failing \in SUBSET Connected(h) :
            /\ hubs' = HubClose(hubs, h, failing)
            /\ errs' = [errs EXCEPT ![t] =
                         IF failing # {} THEN @ \cup {id} ELSE @]
            /\ IF failing # {}
                 THEN /\ todo' = [todo EXCEPT ![t] = {}]
                      /\ UNCHANGED <<disk, warned>>
                 ELSE /\ todo' = [todo EXCEPT ![t] = @ \ {id}]
                      /\ \E rmok \in BOOLEAN :
                           /\ disk' = RemoveAll(disk, sess[h].BundleDir, rmok)
                           /\ warned' = [warned EXCEPT ![t] =
                                IF rmok THEN @ ELSE @ \cup {sess[h].BundleDir}]
  /\ UNCHANGED <<sessions, mu, sess, nextHub, pc, op, arg, hub, libs, res,
                 conc>>
  /\ UNCHANGED <<allTools, smu, regen, invoked>>

\* one iteration of the loop over m.sessions
CA_Session(t) ==
  /\ pc[t] = "ca_loop"
  /\ \E id \in todo[t] :
       LET h == sessions[id] IN
       /\ HubCanLock(h)
       /\ \E failing \in SUBSET Connected(h) :
            /\ hubs' = HubClose(hubs, h, failing)
            /\ errs' = [errs EXCEPT ![t] =
                         IF failing # {} THEN @ \cup {id} ELSE @]
       /\ IF sess[h].BundleDir # 0
            THEN \/ \E rmok \in BOOLEAN :
                      /\ disk' = RemoveAll(disk, sess[h].BundleDir, rmok)
                      /\ warned' = [warned EXCEPT ![t] =
                           IF rmok THEN @ ELSE @ \cup {sess[h].BundleDir}]
                 \/ /\ WriteInFlight(sess[h].BundleDir)
                    /\ disk' = RemoveAllRaced(disk, sess[h].BundleDir)
                    /\ warned' = [warned EXCEPT ![t] =
                         @ \cup {sess[h].BundleDir}]
            ELSE UNCHANGED <<disk, warned>>
       /\ todo' = [todo EXCEPT ![t] = @ \ {id}]
  /\ UNCHANGED <<sessions, mu, sess, nextHub, pc, op, arg, hub, libs, res,
                 conc>>
  /\ UNCHANGED <<allTools, smu, regen, invoked>>

\* mutant: the collected errors are dropped
CA_DoneNil(t) ==
  /\ pc[t] = "ca_loop"
  /\ todo[t] = {}
  /\ sessions' = <<>>
  /\ mu' = 0
  /\ Return(t, OkRes)
  /\ errs' = [errs EXCEPT ![t] = {}]
  /\ UNCHANGED <<hubs, sess, disk, nextHub, op, arg, hub, libs, todo, warned,
                 conc>>
  /\ UNCHANGED <<allTools, smu, regen, invoked>>

\* m.sessions = make(map); return the aggregated error or nil
CA_Done(t) ==
  /\ pc[t] = "ca_loop"
  /\ todo[t] = {}
  /\ sessions' = <<>>
  /\ mu' = 0
  /\ Return(t, IF errs[t] # {} THEN ErrRes("closeall", errs[t]) ELSE OkRes)
  /\ errs' = [errs EXCEPT ![t] = {}]
  /\ UNCHANGED <<hubs, sess, disk, nextHub, op, arg, hub, libs, todo, warned,
                 conc>>
  /\ UNCHANGED <<allTools, smu, regen, invoked>>

\* ---- specifications -----------------------------------------------------
GetOrCreateStep(t) ==
  \/ GOC_FastPath(t)
  \/ GOC_Lock(t)
  \/ GOC_ConnectOk(t)
  \/ GOC_ConnectFail(t)
  \/ Init_MkdirTemp(t)
  \/ Init_MkdirLib(t)
  \/ Init_GenLib(t)
  \/ Init_McpTypes(t)
  \/ Init_Rspack(t)
  \/ GOC_InitFailed(t)
  \/ GOC_Publish(t)

Next ==
  \E t \in Threads :
    \/ \E id \in IDs : CallGetOrCreateSession(t, id)
    \/ GetOrCreateStep(t)
    \/ \E id \in IDs : CallGetSession(t, id)
    \/ GetSession(t)
    \/ \E id \in IDs : CallDeleteSession(t, id)
    \/ Del_Lock(t)
    \/ Del_Close(t)
    \/ Del_Remove(t)
    \/ CallCloseAll(t)
    \/ CA_Lock(t)
    \/ CA_Session(t)
    \/ CA_Done(t)

Spec == Init /\ [][Next]_vars

\* threads that only look sessions up or create them: no teardown
NextCreate ==
  \E t \in Threads :
    \/ \E id \in IDs : CallGetOrCreateSession(t, id)
    \/ GetOrCreateStep(t)
    \/ \E id \in IDs : CallGetSession(t, id)
    \/ GetSession(t)

SpecCreate == Init /\ [][NextCreate]_vars

\* ---- catalog changes and regenerateLibForServer --------------------------
FreeRegens == {r \in Regens : regen[r].pc \in {"none", "done"}}

\* a callback ended; err = "" stands for a nil error
RegenDone(r, e) ==
  [NoRegen EXCEPT !.pc = "done", !.h = regen[r].h, !.p = regen[r].p, !.err = e]

\* catalog changes announced so far
Changes ==
  Cardinality({x \in HubIds \X Providers \X (1..MaxChanges) :
                 hubs[x[1]].tools[x[2]] > x[3]})

\* provider p of hub h announces a changed catalog: the client refreshes its
\* tools and the hub invokes the registered callback, outside its lock, on
\* a thread of its own
CatalogChange(h, p) ==
  /\ h \in Allocated
  /\ hubs[h].clients[p] = "open"
  /\ Changes < MaxChanges
  /\ hubs' = [hubs EXCEPT ![h].tools[p] = @ + 1]
  /\ IF hubs[h].cb
       THEN /\ FreeRegens # {}
            /\ LET r == CHOOSE x \in FreeRegens : \A y \in FreeRegens : x <= y IN
               regen' = [regen EXCEPT ![r] =
                 [NoRegen EXCEPT !.pc = "lock", !.h = h, !.p = p,
                                 !.ann = hubs[h].tools[p] + 1]]
       ELSE UNCHANGED regen
  /\ UNCHANGED <<sessions, mu, sess, disk, nextHub, pc, op, arg, hub, libs,
                 res, todo, errs, warned, conc, allTools, smu, invoked>>

\* mutant: regenerateLibForServer does not take the session lock
SessionCanLockAlways(h) == TRUE

\* sync.RWMutex of a session
SessionCanLock(h) == smu[h] = 0

\* session.mu.Lock()
R_Lock(r) ==
  /\ regen[r].pc = "lock"
  /\ SessionCanLock(regen[r].h)
  /\ smu' = [smu EXCEPT ![regen[r].h] = r]
  /\ regen' = [regen EXCEPT ![r].pc = "gen"]
  /\ UNCHANGED <<sessions, mu, hubs, sess, disk, nextHub, pc, op, arg, hub,
                 libs, res, todo, errs, warned, conc, allTools, invoked>>

\* mutant: a failed GenerateFile returns without the deferred Unlock
R_GenerateKeepsLock(r) ==
  LET h == regen[r].h
      p == regen[r].p IN
  /\ regen[r].pc = "gen"
  /\ HubCanRLock(h)
  /\ IF p \notin Connected(h)
       THEN /\ regen' = [regen EXCEPT ![r] = RegenDone(r, "notfound")]
            /\ smu' = [smu EXCEPT ![h] = 0]
            /\ UNCHANGED sess
       ELSE \E ok \in BOOLEAN :
              IF ok
                THEN LET file == GenerateFile(p, hubs[h].tools[p]) IN
                     /\ sess' = [sess EXCEPT ![h].Libs[p] = file]
                     /\ regen' = [regen EXCEPT ![r].pc = "write",
                                               ![r].file = file]
                     /\ UNCHANGED smu
                ELSE /\ regen' = [regen EXCEPT ![r] = RegenDone(r, "generate")]
                     /\ UNCHANGED <<smu, sess>>
  /\ UNCHANGED <<sessions, mu, hubs, disk, nextHub, pc, op, arg, hub, libs,
                 res, todo, errs, warned, conc, allTools, invoked>>

\* tools, ok := session.ClientHub.ServerTools(serverName); GenerateFile;
\* session.Libs[serverName] = file
R_Generate(r) ==
  LET h == regen[r].h
      p == regen[r].p IN
  /\ regen[r].pc = "gen"
  /\ HubCanRLock(h)
  /\ IF p \notin Connected(h)
       THEN /\ regen' = [regen EXCEPT ![r] = RegenDone(r, "notfound")]
            /\ smu' = [smu EXCEPT ![h] = 0]
            /\ UNCHANGED sess
       ELSE \E ok \in BOOLEAN :
              IF ok
                THEN LET file == GenerateFile(p, hubs[h].tools[p]) IN
                     /\ sess' = [sess EXCEPT ![h].Libs[p] = file]
                     /\ regen' = [regen EXCEPT ![r].pc = "write",
                                               ![r].file = file]
                     /\ UNCHANGED smu
                ELSE /\ regen' = [regen EXCEPT ![r] = RegenDone(r, "generate")]
                     /\ smu' = [smu EXCEPT ![h] = 0]
                     /\ UNCHANGED sess
  /\ UNCHANGED <<sessions, mu, hubs, disk, nextHub, pc, op, arg, hub, libs,
                 res, todo, errs, warned, conc, allTools, invoked>>

\* os.WriteFile can succeed when the lib directory exists, which is not known
\* after a failed os.RemoveAll
CanWriteLib(d) ==
  disk[d].state = "present" /\ (disk[d].lib \/ disk[d].rmAttempted)

\* mutant: the new rendering is kept in memory only
R_WriteSkipsDisk(r) ==
  LET h == regen[r].h
      p == regen[r].p IN
  /\ regen[r].pc = "write"
  /\ regen' = [regen EXCEPT ![r] = RegenDone(r, "")]
  /\ smu' = [smu EXCEPT ![h] = 0]
  /\ UNCHANGED <<sessions, mu, hubs, sess, disk, nextHub, pc, op, arg, hub,
                 libs, res, todo, errs, warned, conc, allTools, invoked>>

\* if session.BundleDir != "" { os.WriteFile(libPath, file) }; return;
\* the deferred session.mu.Unlock()
R_Write(r) ==
  LET h == regen[r].h
      p == regen[r].p
      d == sess[h].BundleDir IN
  /\ regen[r].pc = "write"
  /\ IF d = 0
       THEN /\ regen' = [regen EXCEPT ![r] = RegenDone(r, "")]
            /\ UNCHANGED disk
       ELSE \E ok \in BOOLEAN :
              /\ ok => CanWriteLib(d)
              /\ disk' = IF ok /\ disk[d].lib
                           THEN [disk EXCEPT ![d].files[p] = regen[r].file]
                           ELSE disk
              /\ regen' = [regen EXCEPT ![r] =
                             RegenDone(r, IF ok THEN "" ELSE "write")]
  /\ smu' = [smu EXCEPT ![h] = 0]
  /\ UNCHANGED <<sessions, mu, hubs, sess, nextHub, pc, op, arg, hub, libs,
                 res, todo, errs, warned, conc, allTools, invoked>>

RegenStep(r) ==
  \/ R_Lock(r)
  \/ R_Generate(r)
  \/ R_Write(r)

\* sessions are created, their providers change their catalogs and the
\* callbacks regenerate the libs: no teardown
NextRegen ==
  \/ \E t \in Threads :
       \/ \E id \in IDs : CallGetOrCreateSession(t, id)
       \/ GetOrCreateStep(t)
  \/ \E h \in HubIds, p \in Providers : CatalogChange(h, p)
  \/ \E r \in Regens : RegenStep(r)

SpecRegen == Init /\ [][NextRegen]_vars

\* ---- the hub's own methods ------------------------------------------------
ServerRes(p) == [kind |-> "server", h |-> 0, why |-> "", names |-> {p}]
\* what McpClient.CallTool of provider p answered, handed on as it is
ToolRes(p, reply) == [kind |-> reply, h |-> 0, why |-> "tool", names |-> {p}]

\* thread t enters method o of hub h with argument a
HubEnter(t, o, h, a, at) ==
  /\ pc[t] = "idle"
  /\ pc' = [pc EXCEPT ![t] = at]
  /\ op' = [op EXCEPT ![t] = o]
  /\ arg' = [arg EXCEPT ![t] = a]
  /\ res' = [res EXCEPT ![t] = NoRes]
  /\ hub' = [hub EXCEPT ![t] = h]
  /\ libs' = [libs EXCEPT ![t] = NoLibs]
  /\ todo' = [todo EXCEPT ![t] = {}]
  /\ errs' = [errs EXCEPT ![t] = {}]
  /\ warned' = [warned EXCEPT ![t] = {}]
  /\ conc' = [conc EXCEPT ![t] = {}]

\* clientHub := NewMcpClientHub(); clientHub.Connect(ctx, cfg) takes ch.mu.
\* The program builds one hub and connects it once
CallConnect(t) ==
  /\ nextHub = 1
  /\ HubEnter(t, "Connect", nextHub, 0, "h_connect")
  /\ hubs' = [hubs EXCEPT ![nextHub] = [NewHub EXCEPT !.mu = t]]
  /\ nextHub' = nextHub + 1
  /\ UNCHANGED <<sessions, mu, sess, disk, allTools, smu, regen, invoked>>

\* one iteration of Connect's loop: NewMcpClient succeeds
H_ConnectOk(t) ==
  /\ pc[t] = "h_connect"
  /\ \E p \in Providers \ Connected(hub[t]) :
       LET last == Connected(hub[t]) \cup {p} = Providers IN
       /\ hubs' = [hubs EXCEPT ![hub[t]].clients[p] = "open",
                               ![hub[t]].tools[p] = InitialTools,
                               ![hub[t]].mu = IF last THEN 0 ELSE t]
       /\ IF last THEN Return(t, OkRes) ELSE UNCHANGED <<pc, res>>
  /\ UNCHANGED <<sessions, mu, sess, disk, nextHub, op, arg, hub, libs, todo,
                 errs, warned, conc, allTools, smu, regen, invoked>>

\* one iteration of Connect's loop: NewMcpClient fails and Connect returns
H_ConnectFail(t) ==
  /\ pc[t] = "h_connect"
  /\ Connected(hub[t]) # Providers
  /\ hubs' = [hubs EXCEPT ![hub[t]].mu = 0]
  /\ Return(t, ErrRes("connect", {}))
  /\ UNCHANGED <<sessions, mu, sess, disk, nextHub, op, arg, hub, libs, todo,
                 errs, warned, conc, allTools, smu, regen, invoked>>

\* ---- CallTool ---------------------------------------------------------------
CallCallTool(t, h, s) ==
  /\ h \in Allocated
  /\ HubEnter(t, "CallTool", h, s, "ct_rlock")
  /\ UNCHANGED <<sessions, mu, hubs, sess, disk, nextHub, allTools, smu,
                 regen, invoked>>

\* mutant: an unknown server name falls back to some connected client
CT_LookupFallsBack(t) ==
  /\ pc[t] = "ct_rlock"
  /\ HubCanRLock(hub[t])
  /\ IF arg[t] \in Connected(hub[t])
       THEN /\ pc' = [pc EXCEPT ![t] = "ct_call"]
            /\ UNCHANGED <<res, arg>>
       ELSE IF Connected(hub[t]) = {}
              THEN /\ Return(t, ErrRes("servernotfound", {arg[t]}))
                   /\ UNCHANGED arg
              ELSE /\ \E p \in Connected(hub[t]) :
                        arg' = [arg EXCEPT ![t] = p]
                   /\ pc' = [pc EXCEPT ![t] = "ct_call"]
                   /\ UNCHANGED res
  /\ UNCHANGED <<sessions, mu, hubs, sess, disk, nextHub, op, hub, libs,
                 todo, errs, warned, conc, allTools, smu, regen, invoked>>

\* ch.mu.RLock(); client, exists := ch.clients[serverName]; ch.mu.RUnlock();
\* if !exists { return "server not found" }
CT_Lookup(t) ==
  /\ pc[t] = "ct_rlock"
  /\ HubCanRLock(hub[t])
  /\ IF arg[t] \in Connected(hub[t])
       THEN /\ pc' = [pc EXCEPT ![t] = "ct_call"]
            /\ UNCHANGED <<res, arg>>
       ELSE /\ Return(t, ErrRes("servernotfound", {arg[t]}))
            /\ UNCHANGED arg
  /\ UNCHANGED <<sessions, mu, hubs, sess, disk, nextHub, op, hub, libs,
                 todo, errs, warned, conc, allTools, smu, regen, invoked>>

\* return client.CallTool(ctx, toolName, args): the connection answers with a
\* result or with an error
CT_Call(t) ==
  /\ pc[t] = "ct_call"
  /\ \E reply \in {"result", "error"} :
       /\ invoked' = [h |-> hub[t], p |-> arg[t], reply |-> reply,
                      seq |-> 1 - invoked.seq]
       /\ Return(t, ToolRes(arg[t], reply))
  /\ UNCHANGED <<sessions, mu, hubs, sess, disk, nextHub, op, arg, hub, libs,
                 todo, errs, warned, conc, allTools, smu, regen>>

\* ---- FindToolServer -------------------------------------------------------
CallFindToolServer(t, h, tool) ==
  /\ h \in Allocated
  /\ HubEnter(t, "FindToolServer", h, tool, "fts_rlock")
  /\ UNCHANGED <<sessions, mu, hubs, sess, disk, nextHub, allTools, smu,
                 regen, invoked>>

\* ch.mu.RLock(); the loop ranges over ch.clients
FTS_RLock(t) ==
  /\ pc[t] = "fts_rlock"
  /\ HubCanRLock(hub[t])
  /\ hubs' = [hubs EXCEPT ![hub[t]].rd = @ \cup {t}]
  /\ todo' = [todo EXCEPT ![t] = Connected(hub[t])]
  /\ pc' = [pc EXCEPT ![t] = "fts_scan"]
  /\ UNCHANGED <<sessions, mu, sess, disk, nextHub, op, arg, hub, libs, res,
                 errs, warned, conc, allTools, smu, regen, invoked>>

\* mutant: the first server visited that has any tool at all is returned
FTS_ScanAnyTool(t) ==
  /\ pc[t] = "fts_scan"
  /\ \E p \in todo[t] :
       IF CatalogTools(p, hubs[hub[t]].tools[p]) # {}
         THEN /\ hubs' = [hubs EXCEPT ![hub[t]].rd = @ \ {t}]
              /\ todo' = [todo EXCEPT ![t] = {}]
              /\ Return(t, ServerRes(p))
         ELSE /\ todo' = [todo EXCEPT ![t] = @ \ {p}]
              /\ UNCHANGED <<hubs, pc, res>>
  /\ UNCHANGED <<sessions, mu, sess, disk, nextHub, op, arg, hub, libs,
                 errs, warned, conc, allTools, smu, regen, invoked>>

\* one iteration of the loop over ch.clients, in the map's order:
\* for _, tool := range client.GetTools() { if tool.Name == toolName ... }
FTS_Scan(t) ==
  /\ pc[t] = "fts_scan"
  /\ \E p \in todo[t] :
       IF arg[t] \in CatalogTools(p, hubs[hub[t]].tools[p])
         THEN /\ hubs' = [hubs EXCEPT ![hub[t]].rd = @ \ {t}]
              /\ todo' = [todo EXCEPT ![t] = {}]
              /\ Return(t, ServerRes(p))
         ELSE /\ todo' = [todo EXCEPT ![t] = @ \ {p}]
              /\ UNCHANGED <<hubs, pc, res>>
  /\ UNCHANGED <<sessions, mu, sess, disk, nextHub, op, arg, hub, libs,
                 errs, warned, conc, allTools, smu, regen, invoked>>

\* the loop ended: return "tool not found in any server"
FTS_NotFound(t) ==
  /\ pc[t] = "fts_scan"
  /\ todo[t] = {}
  /\ hubs' = [hubs EXCEPT ![hub[t]].rd = @ \ {t}]
  /\ Return(t, ErrRes("toolnotfound", {}))
  /\ UNCHANGED <<sessions, mu, sess, disk, nextHub, op, arg, hub, libs, todo,
                 errs, warned, conc, allTools, smu, regen, invoked>>

\* ---- Close, client by client ----------------------------------------------
\* HubClose above is the outcome of these steps taken together.  Within the
\* call a connection whose Close returned an error is "closefailed"
CallHubClose(t, h) ==
  /\ h \in Allocated
  /\ HubEnter(t, "Close", h, 0, "hc_lock")
  /\ UNCHANGED <<sessions, mu, hubs, sess, disk, nextHub, allTools, smu,
                 regen, invoked>>

\* ch.mu.Lock()
HC_Lock(t) ==
  /\ pc[t] = "hc_lock"
  /\ HubCanLock(hub[t])
  /\ hubs' = [hubs EXCEPT ![hub[t]].mu = t]
  /\ todo' = [todo EXCEPT ![t] = Connected(hub[t])]
  /\ pc' = [pc EXCEPT ![t] = "hc_loop"]
  /\ UNCHANGED <<sessions, mu, sess, disk, nextHub, op, arg, hub, libs, res,
                 errs, warned, conc, allTools, smu, regen, invoked>>

\* mutant: the loop stops at the first client that fails to close
HC_ClientAborts(t) ==
  /\ pc[t] = "hc_loop"
  /\ \E p \in todo[t], ok \in BOOLEAN :
       /\ hubs' = [hubs EXCEPT ![hub[t]].clients[p] =
                     IF ok THEN "closed" ELSE "closefailed"]
       /\ errs' = [errs EXCEPT ![t] = IF ok THEN @ ELSE @ \cup {p}]
       /\ todo' = [todo EXCEPT ![t] = IF ok THEN @ \ {p} ELSE {}]
  /\ UNCHANGED <<sessions, mu, sess, disk, nextHub, pc, op, arg, hub, libs,
                 res, warned, conc, allTools, smu, regen, invoked>>

\* one iteration of the loop over ch.clients: client.Close(), an error is
\* appended to errs
HC_Client(t) ==
  /\ pc[t] = "hc_loop"
  /\ \E p \in todo[t], ok \in BOOLEAN :
       /\ hubs' = [hubs EXCEPT ![hub[t]].clients[p] =
                     IF ok THEN "closed" ELSE "closefailed"]
       /\ errs' = [errs EXCEPT ![t] = IF ok THEN @ ELSE @ \cup {p}]
       /\ todo' = [todo EXCEPT ![t] = @ \ {p}]
  /\ UNCHANGED <<sessions, mu, sess, disk, nextHub, pc, op, arg, hub, libs,
                 res, warned, conc, allTools, smu, regen, invoked>>

\* the loop ended: return the aggregated error or nil; the deferred Unlock
HC_Done(t) ==
  /\ pc[t] = "hc_loop"
  /\ todo[t] = {}
  /\ hubs' = [HubClose(hubs, hub[t], errs[t]) EXCEPT ![hub[t]].mu = 0]
  /\ Return(t, IF errs[t] # {} THEN ErrRes("hubclose", errs[t]) ELSE OkRes)
  /\ errs' = [errs EXCEPT ![t] = {}]
  /\ UNCHANGED <<sessions, mu, sess, disk, nextHub, op, arg, hub, libs, todo,
                 warned, conc, allTools, smu, regen, invoked>>

\* threads that own hubs and call their methods while the providers change
\* their catalogs
NextHub ==
  \/ \E t \in Threads :
       \/ CallConnect(t)
       \/ H_ConnectOk(t)
       \/ H_ConnectFail(t)
       \/ \E h \in HubIds, s \in ServerNames : CallCallTool(t, h, s)
       \/ CT_Lookup(t)
       \/ CT_Call(t)
       \/ \E h \in HubIds, tool \in ToolNames : CallFindToolServer(t, h, tool)
       \/ FTS_RLock(t)
       \/ FTS_Scan(t)
       \/ FTS_NotFound(t)
       \/ \E h \in HubIds : CallHubClose(t, h)
       \/ HC_Lock(t)
       \/ HC_Client(t)
       \/ HC_Done(t)
  \/ \E h \in HubIds, p \in Providers : CatalogChange(h, p)

SpecHub == Init /\ [][NextHub]_vars

\* ---- ListTools ------------------------------------------------------------
\* the map ListTools returns: server name -> the tools of its catalog
ToolsRes(h) ==
  [kind |-> "tools", h |-> 0, why |-> "",
   names |-> {x \in Connected(h) \X ToolNames :
                x[2] \in CatalogTools(x[1], hubs[h].tools[x[1]])}]

CallListTools(t, h) ==
  /\ h \in Allocated
  /\ HubEnter(t, "ListTools", h, 0, "lt_rlock")
  /\ UNCHANGED <<sessions, mu, hubs, sess, disk, nextHub, allTools, smu,
                 regen, invoked>>

\* ch.mu.RLock()
LT_RLock(t) ==
  /\ pc[t] = "lt_rlock"
  /\ HubCanRLock(hub[t])
  /\ hubs' = [hubs EXCEPT ![hub[t]].rd = @ \cup {t}]
  /\ pc' = [pc EXCEPT ![t] = "lt_collect"]
  /\ UNCHANGED <<sessions, mu, sess, disk, nextHub, op, arg, hub, libs, res,
                 todo, errs, warned, conc, allTools, smu, regen, invoked>>

\* result[name] = client.GetTools() for every client; return result; the
\* deferred RUnlock
LT_Collect(t) ==
  /\ pc[t] = "lt_collect"
  /\ hubs' = [hubs EXCEPT ![hub[t]].rd = @ \ {t}]
  /\ Return(t, ToolsRes(hub[t]))
  /\ UNCHANGED <<sessions, mu, sess, disk, nextHub, op, arg, hub, libs, todo,
                 errs, warned, conc, allTools, smu, regen, invoked>>

\* ---- one session's life ---------------------------------------------------
\* The request handler (thread 1) creates the session of ID 1 once, deletes
\* it and shuts the registry down.  The tool executor (the last thread) looks
\* the session up, lists the tools of its hub and calls a tool of provider 1
\* once.
\* Provider 1 announces catalog changes and the hub runs the registered
\* callback for each of them.
Handler == 1
Executor == NumThreads

HandlerCall(t) ==
  /\ t = Handler
  /\ \/ nextHub = 1 /\ CallGetOrCreateSession(t, 1)
     \/ CallDeleteSession(t, 1)
     \/ CallCloseAll(t)

ExecutorCall(t) ==
  /\ t = Executor
  /\ \/ CallGetSession(t, 1)
     \/ \E h \in HubIds :
          hubs[h].cb /\ invoked = NoCall /\ CallCallTool(t, h, 1)
     \/ \E h \in HubIds : hubs[h].cb /\ CallListTools(t, h)

\* the steps of a call that is under way
ThreadStep(t) ==
  \/ GetOrCreateStep(t)
  \/ GetSession(t)
  \/ Del_Lock(t)
  \/ Del_Close(t)
  \/ Del_Remove(t)
  \/ CA_Lock(t)
  \/ CA_Session(t)
  \/ CA_Done(t)
  \/ CT_Lookup(t)
  \/ CT_Call(t)
  \/ LT_RLock(t)
  \/ LT_Collect(t)

NextLife ==
  \/ \E t \in Threads : HandlerCall(t) \/ ExecutorCall(t) \/ ThreadStep(t)
  \/ \E h \in HubIds : hubs[h].cb /\ CatalogChange(h, 1)
  \/ \E r \in Regens : RegenStep(r)

\* sync.Mutex and sync.RWMutex hand a lock to every waiter in the end, and
\* every external call returns: a step that is possible again and again is
\* taken
FairLife ==
  /\ \A t \in Threads : SF_vars(ThreadStep(t))
  /\ \A r \in Regens : SF_vars(RegenStep(r))

SpecLife == Init /\ [][NextLife]_vars /\ FairLife

\* ---- properties ---------------------------------------------------------
InGOC(t) == op[t] = "GetOrCreateSession"
Returned(t) == pc[t] = "idle" /\ res[t].kind # "none"

\* the connect-and-build sequence on hub h ended with the session published
Succeeded(h) == h \in Allocated /\ hubs[h].cb
\* the connect-and-build sequence on hub h ended with an error
Failed(h) == h \in Allocated /\ ~Building(h) /\ ~hubs[h].cb
Published(h) == \E id \in DOMAIN sessions : sessions[id] = h
NoOpenConnection(h) == \A p \in Providers : hubs[h].clients[p] # "open"

\* the sequences a GetOrCreateSession caller ran itself or was concurrent with
Seen(t) == conc[t] \cup ({hub[t]} \ {0})

\* C1: when callers of GetOrCreateSession race on one session ID that is not
\* in the registry and the construction succeeds, that construction is the
\* only connect-and-build sequence for the ID: no caller that ran it or was
\* waiting during it runs another one, none gets an error, each one that has
\* returned got that very session, and no later sequence for the ID exists.
C1_OneConstructionOneSession ==
  \A t \in Threads : \A h \in Seen(t) :
    (InGOC(t) /\ Succeeded(h)) =>
      /\ hub[t] \in {0, h}
      /\ res[t].kind # "err"
      /\ Returned(t) => res[t] = SessionRes(h)
      /\ \A h2 \in Allocated : hubs[h2].sid = arg[t] => h2 <= h

C1_Witness ==
  \E t \in Threads, u \in Threads :
    /\ t # u /\ InGOC(t) /\ InGOC(u) /\ arg[t] = arg[u]
    /\ Returned(t) /\ Returned(u)
    /\ hub[t] # 0 /\ Succeeded(hub[t]) /\ hub[t] \in conc[u]
    /\ res[t] = SessionRes(hub[t]) /\ res[u] = res[t]

\* C2 as claimed: when the construction a caller of GetOrCreateSession was
\* waiting on fails, the waiting caller starts no connect-and-build sequence
\* of its own and does not get a session.
C2_WaitersShareTheError ==
  \A t \in Threads : \A h \in conc[t] :
    (InGOC(t) /\ Failed(h)) => (hub[t] = 0 /\ res[t].kind # "session")

\* C2 as amended: connect-and-build sequences never overlap; an error is
\* returned only to the caller whose own sequence failed; a caller that was
\* waiting on a failed sequence returns after running its own sequence or
\* with the session a later sequence published; and a returned session is
\* always one whose construction succeeded for the requested ID.
C2_EachCallerOwnSequence ==
  /\ Cardinality({h \in Allocated : Building(h)}) <= 1
  /\ \A t \in Threads : InGOC(t) =>
       /\ res[t].kind = "err" => (hub[t] # 0 /\ Failed(hub[t]))
       /\ res[t].kind = "session" =>
            (Succeeded(res[t].h) /\ hubs[res[t].h].sid = arg[t])
       /\ \A h \in conc[t] : (Failed(h) /\ Returned(t)) =>
            \/ hub[t] # 0
            \/ res[t].kind = "session" /\ res[t].h # h

C2_Witness ==
  \E t \in Threads, u \in Threads :
    /\ t # u /\ InGOC(t) /\ InGOC(u) /\ arg[t] = arg[u]
    /\ Returned(t) /\ res[t].kind = "err" /\ hub[t] \in conc[u]
    /\ Returned(u) /\ hub[u] # 0 /\ res[u] = SessionRes(hub[u])

\* C3: from the moment GetOrCreateSession starts to construct a session until
\* it returns an error, the registry map does not change and does not hold
\* the session ID: a failed call leaves the map as it found it.
C3_FailedCreateLeavesRegistry ==
  [][\A t \in Threads :
       (pc[t] \in ConstructPcs
          /\ ~(pc'[t] = "idle" /\ res'[t].kind = "session"))
       => (sessions' = sessions /\ arg[t] \notin DOMAIN sessions')]_vars

C3_Witness ==
  \E t \in Threads :
    /\ InGOC(t) /\ Returned(t) /\ res[t].kind = "err" /\ res[t].why = "bundle"
    /\ arg[t] \notin DOMAIN sessions
    /\ DOMAIN sessions # {}

\* C4: when GetOrCreateSession has returned the error of a failed hub
\* Connect, no connection of that hub is open.
C4_ConnectFailureClosesConnections ==
  \A t \in Threads :
    (InGOC(t) /\ Returned(t) /\ res[t].kind = "err" /\ res[t].why = "connect")
      => NoOpenConnection(hub[t])

\* workspace initialization of thread t's call failed after os.MkdirTemp
InitFailedAfterMkdirTemp(t) ==
  /\ InGOC(t) /\ Returned(t) /\ res[t].kind = "err" /\ res[t].why = "bundle"
  /\ disk[hub[t]].state # "none"

\* C5 as claimed: when GetOrCreateSession has returned the error of a failed
\* workspace initialization, the root directory made for the session is gone
\* and no connection of its hub is open.
C5_InitFailureLeavesNothing ==
  \A t \in Threads : InitFailedAfterMkdirTemp(t) =>
    (disk[hub[t]].state = "removed" /\ NoOpenConnection(hub[t]))

\* C5 as amended: when GetOrCreateSession has returned the error of a failed
\* workspace initialization, os.RemoveAll has been called on the root
\* directory and the directory is gone unless that call failed, and Close
\* has been called on every connection of the hub.
C5_InitFailureCleansUp ==
  \A t \in Threads : InitFailedAfterMkdirTemp(t) =>
    /\ disk[hub[t]].rmAttempted
    /\ NoOpenConnection(hub[t])
    /\ Connected(hub[t]) = Providers

C5_Witness ==
  \E t \in Threads :
    /\ InitFailedAfterMkdirTemp(t)
    /\ disk[hub[t]].state = "removed"
    /\ \A p \in Providers : hubs[hub[t]].clients[p] = "closed"

\* the session on hub h is fully initialized: every configured provider has
\* a live connection, and every provider's artifact is in session.Libs and
\* in the lib directory on disk
FullyInitialized(h) ==
  /\ \A p \in Providers : hubs[h].clients[p] = "open"
  /\ sess[h].BundleDir = h
  /\ disk[h].state = "present" /\ disk[h].lib /\ disk[h].types
  /\ disk[h].rspack
  /\ \A p \in Providers :
       sess[h].Libs[p] # NoFile /\ disk[h].files[p] = sess[h].Libs[p]

\* C6: whenever the registry can be read (no writer holds its lock), every
\* session in it is fully initialized, and every session a GetSession or
\* GetOrCreateSession caller got was published by a completed construction.
C6_PublishedFullyInitialized ==
  /\ mu = 0 => \A id \in DOMAIN sessions : FullyInitialized(sessions[id])
  /\ \A t \in Threads :
       (op[t] \in {"GetSession", "GetOrCreateSession"}
          /\ res[t].kind = "session") => Succeeded(res[t].h)

\* C7: when DeleteSession has returned the error of a failed hub close, the
\* session is out of the registry and os.RemoveAll was called on its
\* workspace directory.
C7_DeleteSurvivesCloseError ==
  \A t \in Threads :
    (op[t] = "DeleteSession" /\ Returned(t) /\ res[t].kind = "err"
       /\ res[t].why = "close")
      => (~Published(hub[t]) /\ disk[hub[t]].rmAttempted)

\* C8: a DeleteSession that finds its session ID absent returns the not-found
\* error and leaves the registry, every hub, every session and every
\* workspace directory as they were.
C8_DeleteUnknownChangesNothing ==
  [][\A t \in Threads :
       (pc[t] = "del_lock" /\ pc'[t] # "del_lock"
          /\ arg[t] \notin DOMAIN sessions)
       => /\ pc'[t] = "idle"
          /\ res'[t].kind = "err" /\ res'[t].why = "notfound"
          /\ UNCHANGED <<sessions, hubs, sess, disk, mu>>]_vars

C8_Witness ==
  \E t \in Threads :
    /\ op[t] = "DeleteSession" /\ Returned(t)
    /\ res[t].kind = "err" /\ res[t].why = "notfound"
    /\ DOMAIN sessions # {}
    /\ \A id \in DOMAIN sessions : FullyInitialized(sessions[id])

\* C9: at the return of CloseAll the registry is empty, and for every session
\* that was in it Close has been called on every hub connection and
\* os.RemoveAll has been called on the workspace directory.
C9_CloseAllCleansEverySession ==
  [][\A t \in Threads :
       (pc[t] = "ca_loop" /\ pc'[t] = "idle")
       => /\ DOMAIN sessions' = {}
          /\ \A id \in DOMAIN sessions :
               /\ \A p \in Providers :
                    hubs'[sessions[id]].clients[p] = "closed"
               /\ disk'[sessions[id]].rmAttempted]_vars

\* CloseAll returned an error although the cleanup of every session was done:
\* two sessions, a hub close failed, both directories handled
C9_Witness ==
  \E t \in Threads :
    /\ op[t] = "CloseAll" /\ Returned(t) /\ res[t].kind = "err"
    /\ DOMAIN sessions = {}
    /\ Cardinality({h \in Allocated : Succeeded(h) /\ disk[h].rmAttempted
                                       /\ NoOpenConnection(h)}) >= 2
    /\ \E h \in Allocated : hubs[h].closeErr

\* C10 as claimed: a DeleteSession or CloseAll during which a workspace
\* removal failed returns an error.
C10_EveryFailedStepReturned ==
  \A t \in Threads :
    (op[t] \in {"DeleteSession", "CloseAll"} /\ Returned(t)
       /\ warned[t] # {}) => res[t].kind = "err"

\* sessions of the registry whose hub returned an error from its last Close
CloseFailedIDs == {id \in DOMAIN sessions : hubs[sessions[id]].closeErr}

\* C10 as amended: every hub close that fails during DeleteSession or
\* CloseAll is part of the returned error: DeleteSession returns an error
\* exactly when the hub close failed, CloseAll returns an error exactly when
\* some session's hub close failed and that error names exactly those
\* sessions; a failed workspace removal is only logged and never makes the
\* call return an error.
C10_CloseFailuresReturned ==
  [][\A t \in Threads :
       /\ (pc[t] = "ca_loop" /\ pc'[t] = "idle") =>
            /\ res'[t].kind = IF CloseFailedIDs # {} THEN "err" ELSE "ok"
            /\ res'[t].names = CloseFailedIDs
       /\ (pc[t] = "del_close" /\ pc'[t] # "del_close") =>
            (hubs'[hub[t]].closeErr <=>
               (pc'[t] = "idle" /\ res'[t].kind = "err"))
       /\ (pc[t] = "del_remove" /\ pc'[t] = "idle") =>
            (res'[t].kind = "ok" /\ ~hubs[hub[t]].closeErr)]_vars

C10_Witness ==
  \E t \in Threads :
    /\ op[t] = "CloseAll" /\ Returned(t)
    /\ res[t].kind = "err" /\ Cardinality(res[t].names) = 1
    /\ warned[t] # {}
    /\ Cardinality({h \in Allocated : Succeeded(h) /\ disk[h].rmAttempted})
         >= 2

\* the callback r ends in this step
RegenEnds(r) == regen[r].pc \in {"gen", "write"} /\ regen'[r].pc = "done"

\* the step leaves the libs of session h other than p's as they are, in
\* memory and on disk
OtherLibsKept(h, p) ==
  \A q \in Providers \ {p} :
    /\ sess'[h].Libs[q] = sess[h].Libs[q]
    /\ disk'[h].files[q] = disk[h].files[q]

\* C11: when the callback for a changed catalog of provider p of a published
\* session ends without error, session.Libs[p] and the file lib/p.ts both
\* hold the rendering of a catalog of p no older than the announced one, and
\* no step of the callback touches the lib of another provider.
C11_RegenerationUpdatesArtifact ==
  [][\A r \in Regens :
       LET h == regen[r].h
           p == regen[r].p IN
       /\ (RegenEnds(r) /\ regen'[r].err = "" /\ Published(h)) =>
            /\ sess'[h].Libs[p] = disk'[h].files[p]
            /\ \E v \in regen[r].ann..hubs[h].tools[p] :
                 sess'[h].Libs[p] = GenerateFile(p, v)
       /\ (regen[r].pc \in {"gen", "write"} /\ regen'[r] # regen[r]) =>
            OtherLibsKept(h, p)]_vars

\* a callback has ended without error and both copies hold the rendering of
\* the changed catalog
C11_Witness ==
  \E r \in Regens :
    LET h == regen[r].h
        p == regen[r].p IN
    /\ regen[r].pc = "done" /\ regen[r].err = ""
    /\ Published(h)
    /\ hubs[h].tools[p] > InitialTools
    /\ sess[h].Libs[p] = GenerateFile(p, hubs[h].tools[p])
    /\ disk[h].files[p] = sess[h].Libs[p]

\* C12 as claimed: when the callback for provider p ends with an error, at
\* whichever step, session.Libs[p] and the file lib/p.ts still hold the
\* rendering the file held before and equal each other, and the libs of the
\* other providers are untouched.
C12_FailedRegenerationKeepsArtifact ==
  [][\A r \in Regens :
       LET h == regen[r].h
           p == regen[r].p IN
       (RegenEnds(r) /\ regen'[r].err # "" /\ Published(h)) =>
          /\ disk'[h].files[p] = disk[h].files[p]
          /\ sess'[h].Libs[p] = disk'[h].files[p]
          /\ OtherLibsKept(h, p)]_vars

\* C13: the callbacks of one session exclude each other between their catalog
\* fetch and their file write, and when two or more callbacks for the same
\* provider have all ended without error, session.Libs[p] and lib/p.ts both
\* hold the rendering of the provider's current catalog.
C13_RegenerationsSerialized ==
  /\ \A h \in HubIds :
       Cardinality({r \in Regens : regen[r].h = h
                                   /\ regen[r].pc \in {"gen", "write"}}) <= 1
  /\ \A h \in HubIds, p \in Providers :
       LET rs == {r \in Regens : regen[r].h = h /\ regen[r].p = p} IN
       (/\ Cardinality(rs) >= 2
        /\ \A r \in rs : regen[r].pc = "done" /\ regen[r].err = "") =>
          /\ sess[h].Libs[p] = GenerateFile(p, hubs[h].tools[p])
          /\ disk[h].files[p] = sess[h].Libs[p]

\* two callbacks for one provider have both ended without error after the
\* catalog changed twice
C13_Witness ==
  \E h \in HubIds, p \in Providers :
    /\ Cardinality({r \in Regens : /\ regen[r].h = h /\ regen[r].p = p
                                   /\ regen[r].pc = "done"
                                   /\ regen[r].err = ""}) >= 2
    /\ hubs[h].tools[p] = InitialTools + 2
    /\ disk[h].files[p] = GenerateFile(p, InitialTools + 2)

\* C14: CallTool with a server name that is not in the hub's map returns
\* "server not found", invokes no connection and leaves the hub as it is;
\* with a name that is in the map it invokes the connection of exactly that
\* name once and returns what the connection answered, result or error.
C14_CallToolRoutesToNamedServer ==
  [][\A t \in Threads :
       /\ (pc[t] = "ct_rlock" /\ pc'[t] # "ct_rlock") =>
            /\ invoked' = invoked /\ hubs' = hubs /\ arg'[t] = arg[t]
            /\ IF arg[t] \in Connected(hub[t])
                 THEN pc'[t] = "ct_call"
                 ELSE /\ pc'[t] = "idle"
                      /\ res'[t] = ErrRes("servernotfound", {arg[t]})
       /\ (pc[t] = "ct_call" /\ pc'[t] # "ct_call") =>
            /\ arg[t] \in Connected(hub[t])
            /\ invoked'.h = hub[t] /\ invoked'.p = arg[t]
            /\ invoked'.seq # invoked.seq
            /\ hubs' = hubs
            /\ pc'[t] = "idle"
            /\ res'[t] = ToolRes(arg[t], invoked'.reply)]_vars

\* one caller got "server not found" for a name the hub does not know while
\* the hub has connections, another got the error its connection answered
C14_Witness ==
  \E t, u \in Threads :
    /\ op[t] = "CallTool" /\ Returned(t)
    /\ res[t] = ErrRes("servernotfound", {arg[t]})
    /\ Connected(hub[t]) # {}
    /\ op[u] = "CallTool" /\ Returned(u)
    /\ res[u] = ToolRes(arg[u], "error")
    /\ invoked.p = arg[u] /\ invoked.reply = "error"

\* C15: FindToolServer returns a server only when the catalog it has just
\* read from that server's client holds a tool of exactly the requested
\* name; it passes over a server only when the catalog it read from it does
\* not hold the name, and it returns "tool not found" only after it has
\* passed over every server in the hub's map.  The server returned is in the
\* map, also when several hold the name.
C15_FindToolServerMatchesCatalog ==
  [][\A t \in Threads :
       LET h == hub[t]
           Has(p) == arg[t] \in CatalogTools(p, hubs[h].tools[p]) IN
       /\ (pc[t] = "fts_rlock" /\ pc'[t] # "fts_rlock") =>
            todo'[t] = Connected(h)
       /\ (pc[t] = "fts_scan" /\ pc'[t] = "fts_scan") =>
            /\ todo'[t] \subseteq todo[t]
            /\ \A p \in todo[t] \ todo'[t] : ~Has(p)
       /\ (pc[t] = "fts_scan" /\ pc'[t] = "idle") =>
            \/ /\ res'[t].kind = "server"
               /\ \E p \in Connected(h) : res'[t] = ServerRes(p) /\ Has(p)
            \/ /\ res'[t] = ErrRes("toolnotfound", {})
               /\ todo[t] = {}]_vars

\* a caller was given one of two servers whose catalogs both hold the name
C15_Witness ==
  \E t \in Threads :
    /\ op[t] = "FindToolServer" /\ Returned(t) /\ res[t].kind = "server"
    /\ res[t].names \subseteq Connected(hub[t])
    /\ Cardinality({p \in Connected(hub[t]) :
         arg[t] \in CatalogTools(p, hubs[hub[t]].tools[p])}) >= 2

\* C16: the hub's Close calls Close on every client in its map, whether or
\* not an earlier one failed, and returns an error exactly when some client
\* failed to close; the error then names every client that failed.
C16_HubCloseAttemptsAll ==
  [][\A t \in Threads :
       LET h == hub[t]
           failed == {p \in Providers : hubs[h].clients[p] = "closefailed"} IN
       /\ (pc[t] = "hc_lock" /\ pc'[t] # "hc_lock") =>
            todo'[t] = Connected(h)
       /\ (pc[t] = "hc_loop" /\ pc'[t] = "idle") =>
            /\ \A p \in Connected(h) :
                 hubs[h].clients[p] \in {"closed", "closefailed"}
            /\ res'[t].kind = "err" <=> failed # {}
            /\ res'[t].kind = "err" =>
                 res'[t] = ErrRes("hubclose", failed)
            /\ res'[t].kind # "err" => res'[t] = OkRes
            /\ hubs'[h] = [HubClose(hubs, h, failed)[h] EXCEPT !.mu = 0]]_vars

\* Close of a hub with all its connections returned an error naming some of
\* them but not all, and no connection is left open
C16_Witness ==
  \E t \in Threads :
    /\ op[t] = "Close" /\ Returned(t) /\ res[t].kind = "err"
    /\ res[t].names # {} /\ res[t].names # Providers
    /\ Connected(hub[t]) = Providers
    /\ \A p \in Providers : hubs[hub[t]].clients[p] = "closed"
    /\ hubs[hub[t]].closeErr

\* C17 as claimed: while a thread is inside the connect-and-build sequence
\* of GetOrCreateSession for one session ID, a GetSession or
\* GetOrCreateSession call for another ID that is in the registry can take
\* its step and return without waiting for the sequence to end.
C17_LookupNotBlockedByConstruction ==
  \A t, u \in Threads :
    (/\ pc[t] \in ConstructPcs
     /\ pc[u] \in {"get_rlock", "goc_rlock"}
     /\ arg[u] # arg[t]
     /\ arg[u] \in DOMAIN sessions) =>
       ENABLED (GetSession(u) \/ GOC_FastPath(u))

\* thread t is at a blocking external call: NewMcpClient, McpClient.CallTool,
\* McpClient.Close, or a file operation on the bundle directory
AtExternalCall(t) ==
  \/ pc[t] \in {"connect", "h_connect", "ct_call", "mkdirtemp", "mkdirlib",
                "genlibs", "mcptypes", "rspack", "cleanup", "del_close",
                "del_remove"}
  \/ pc[t] \in {"hc_loop", "ca_loop"} /\ todo[t] # {}

\* the locks thread t holds there: the registry's, the hubs' it has locked,
\* and the hub's that the Close it is about to call takes
LocksHeld(t) ==
  (IF mu = t THEN 1 ELSE 0)
  + Cardinality({h \in HubIds : hubs[h].mu = t \/ t \in hubs[h].rd})
  + (IF \/ pc[t] \in {"cleanup", "del_close"}
        \/ pc[t] = "ca_loop" /\ todo[t] # {}
       THEN 1 ELSE 0)

\* C18 as claimed: a thread that is at a provider connect, a connection
\* close, a tool call or a file operation of the workspace holds at most one
\* of the registry lock, the session locks and the hub locks.
C18_OneLockAcrossExternalCalls ==
  \A t \in Threads : AtExternalCall(t) => LocksHeld(t) <= 1

\* C19: two sessions in the registry never share their hub or their bundle
\* directory, and the hub and the directory a session refers to are the ones
\* made in the construction that published it under its ID.
C19_SessionsShareNothing ==
  /\ \A i, j \in DOMAIN sessions :
       i # j =>
         /\ sessions[i] # sessions[j]
         /\ sess[sessions[i]].ClientHub # sess[sessions[j]].ClientHub
         /\ sess[sessions[i]].BundleDir # sess[sessions[j]].BundleDir
  /\ \A i \in DOMAIN sessions :
       LET s == sessions[i] IN
       /\ sess[s].ClientHub = s /\ hubs[s].sid = i
       /\ sess[s].BundleDir = s

\* two sessions are in the registry at once
C19_Witness ==
  \E i, j \in DOMAIN sessions :
    /\ i # j
    /\ sess[sessions[i]].ClientHub \in Allocated
    /\ sess[sessions[j]].ClientHub \in Allocated
    /\ sess[sessions[i]].BundleDir # 0
    /\ sess[sessions[j]].BundleDir # 0

\* C20: a GetOrCreateSession call that finds its ID missing under the write
\* lock starts a connect-and-build sequence on a hub never used before,
\* whatever happened to earlier calls for the ID; a sequence that reaches its
\* end publishes its session under the ID and returns it.  A published
\* session stays the one stored under its ID until a DeleteSession of that ID
\* or a CloseAll removes it, and every GetSession and GetOrCreateSession of
\* the ID returns it.
C20_FailureDoesNotPoisonID ==
  [][\A t \in Threads :
       /\ (pc[t] = "goc_lock" /\ pc'[t] # "goc_lock"
             /\ arg[t] \notin DOMAIN sessions) =>
            /\ pc'[t] = "connect"
            /\ hub'[t] \notin Allocated /\ hub'[t] \in Allocated'
            /\ hubs[hub'[t]] = NewHub
       /\ (pc[t] = "publish" /\ pc'[t] # "publish") =>
            /\ arg[t] \in DOMAIN sessions'
            /\ sessions'[arg[t]] = hub[t]
            /\ pc'[t] = "idle" /\ res'[t] = SessionRes(hub[t])
       /\ (pc[t] \in {"get_rlock", "goc_rlock", "goc_lock"}
             /\ pc'[t] # pc[t] /\ arg[t] \in DOMAIN sessions) =>
            /\ pc'[t] = "idle" /\ res'[t] = SessionRes(sessions[arg[t]])
       /\ \A id \in DOMAIN sessions :
            IF id \in DOMAIN sessions'
              THEN sessions'[id] = sessions[id]
              ELSE \E u \in Threads :
                     /\ pc'[u] = "idle"
                     /\ \/ pc[u] = "del_remove" /\ arg[u] = id
                        \/ pc[u] = "ca_loop"]_vars

\* after a failed construction for an ID a later call built and published
\* a session for it on another hub, and a GetSession of the ID returned it
C20_Witness ==
  \E id \in DOMAIN sessions, h \in Allocated, t \in Threads :
    /\ hubs[h].sid = id /\ Failed(h)
    /\ sessions[id] # h /\ Succeeded(sessions[id])
    /\ op[t] = "GetSession" /\ arg[t] = id /\ Returned(t)
    /\ res[t] = SessionRes(sessions[id])

\* the locks: the registry's (rank 1), a session's (rank 2), a hub's (rank 3)
RegistryLock == <<1, 0>>
SessionLock(h) == <<2, h>>
HubLock(h) == <<3, h>>

\* the locks thread t holds
ThreadHolds(t) ==
  (IF mu = t THEN {RegistryLock} ELSE {})
  \cup {HubLock(h) : h \in {x \in HubIds : hubs[x].mu = t \/ t \in hubs[x].rd}}

\* the locks the next step of thread t takes
ThreadWants(t) ==
  IF pc[t] \in {"goc_rlock", "goc_lock", "get_rlock", "del_lock", "ca_lock"}
    THEN {RegistryLock}
  ELSE IF pc[t] \in {"cleanup", "del_close", "ct_rlock", "lt_rlock",
                     "fts_rlock", "hc_lock"}
    THEN {HubLock(hub[t])}
  ELSE IF pc[t] = "ca_loop"
    THEN {HubLock(sessions[id]) : id \in todo[t]}
  ELSE {}

\* the locks callback r holds, and the ones its next step takes
RegenHolds(r) == {SessionLock(h) : h \in {x \in HubIds : smu[x] = r}}
RegenWants(r) ==
  IF regen[r].pc = "lock" THEN {SessionLock(regen[r].h)}
  ELSE IF regen[r].pc = "gen" THEN {HubLock(regen[r].h)}
  ELSE {}

\* every lock in held comes before every lock in wanted
Ordered(held, wanted) == \A l \in held, w \in wanted : l[1] < w[1]

\* a lock is held by a call or a callback that is under way
NoOrphanLock ==
  /\ mu # 0 => pc[mu] # "idle"
  /\ \A h \in HubIds :
       /\ hubs[h].mu # 0 => pc[hubs[h].mu] # "idle"
       /\ \A t \in hubs[h].rd : pc[t] # "idle"
       /\ smu[h] # 0 =>
            regen[smu[h]].pc \in {"gen", "write"} /\ regen[smu[h]].h = h

\* whoever is about to take a lock holds only locks that come before it
LockOrder ==
  /\ \A t \in Threads : Ordered(ThreadHolds(t), ThreadWants(t))
  /\ \A r \in Regens : Ordered(RegenHolds(r), RegenWants(r))

\* a lock that a step adds to the ones its taker keeps comes after all the
\* locks the taker held
LockOrderStep ==
  /\ \A t \in Threads :
       Ordered(ThreadHolds(t), ThreadHolds(t)' \ ThreadHolds(t))
  /\ \A r \in Regens :
       Ordered(RegenHolds(r), RegenHolds(r)' \ RegenHolds(r))

\* every call returns and every callback ends
AllReturn ==
  /\ \A t \in Threads : (pc[t] # "idle") ~> (pc[t] = "idle")
  /\ \A r \in Regens :
       (regen[r].pc \in {"lock", "gen", "write"}) ~> (regen[r].pc = "done")

\* C21: GetOrCreateSession, GetSession, DeleteSession, CloseAll, the hub's
\* CallTool and ListTools, the hub Close of a teardown and the regeneration
\* callbacks never deadlock: a lock is taken only by someone who holds no
\* lock but earlier ones in the order registry, session, hub; a lock is held
\* only by a call or callback under way; and, every external call returning
\* and the locks being fair, every call returns and every callback ends.
C21_NoDeadlock ==
  /\ []LockOrder
  /\ [][LockOrderStep]_vars
  /\ []NoOrphanLock
  /\ AllReturn

\* the handler holds the registry lock and waits for the hub lock that the
\* executor's ListTools holds, while a callback holds the session lock and
\* another one waits for it
C21_Witness ==
  /\ pc[Handler] \in {"del_close", "ca_loop"}
  /\ mu = Handler
  /\ \E h \in HubIds :
       /\ HubLock(h) \in ThreadWants(Handler)
       /\ Executor \in hubs[h].rd
       /\ \E r, q \in Regens :
            /\ regen[r].pc = "lock" /\ regen[r].h = h
            /\ smu[h] = q /\ q # r

\* the teardown of workspace d has run its os.RemoveAll
TornDown(d) == disk[d].rmAttempted

\* C22 as claimed: a regeneration callback that is in flight during the
\* teardown of its session, or runs after it, neither makes the removal of
\* the workspace fail nor leaves a file or directory of it on disk, and a
\* workspace that DeleteSession or CloseAll has removed stays removed.
C22_RemovedWorkspaceStaysRemoved ==
  /\ [](\A d \in HubIds :
          TornDown(d) => ~disk[d].lib /\ disk[d].files = NoLibs)
  /\ [][\A d \in HubIds :
          disk[d].state = "removed" => disk'[d].state = "removed"]_vars

====
